---- MODULE Spec2Model ----
(***************************************************************************)
(* The room session and event-synchronisation engine of server.js: the     *)
(* `rooms` and `users` maps, the socket.io room membership the broadcasts   *)
(* go through, and one action per socket handler.  A handler runs to       *)
(* completion on the Node.js event loop, so every handler is one atomic    *)
(* action.                                                                 *)
(***************************************************************************)
EXTENDS Integers, FiniteSets, Sequences, TLC

\* ---------------------------------------------------------------- bounds
MaxSockets == 2
MaxRooms == 2
MaxEvents == 2
MaxPlaybackEvents == 3

\* ------------------------------------------------------------ value sets
\* socket.id of each connection the server ever accepts (never reused)
SocketIds == {"s" \o ToString(i) : i \in 1..MaxSockets}

\* roomId is an uninterpreted client-supplied string
RoomIds == {"r" \o ToString(i) : i \in 1..MaxRooms}

\* names of socket.io rooms: every socket is in the room named by its own id
Names == SocketIds \cup RoomIds

Usernames == {"ann", ""}

Null == "null"
Undefined == "undefined"

VideoRefs == {"v1"}
Titles == {"Demo"}
Times == {42}
Rates == {2}
EventTypes == {"play", "pause", "seek", "rate-change", "sync"}

\* the payloads the clients send; optional fields may be absent
JoinData == [roomId : RoomIds, username : Usernames]

VideoEventData ==
    LET T == [type : EventTypes]
    IN  T \cup {[type |-> d.type, currentTime |-> t] : d \in T, t \in Times}
          \cup {[type |-> d.type, playbackRate |-> r] : d \in T, r \in Rates}

YoutubeData ==
    {[videoId |-> v, title |-> t] : v \in VideoRefs, t \in Titles}
      \cup {[videoId |-> v] : v \in VideoRefs}
      \cup {[title |-> t] : t \in Titles}

UploadData ==
    {[fileUrl |-> v, fileName |-> t] : v \in VideoRefs, t \in Titles}
      \cup {[fileUrl |-> v] : v \in VideoRefs}
      \cup {[fileName |-> t] : t \in Titles}

ChatData == {[message |-> "hi"]}

SignalData == [target : Names, body : {"sdp"}]

VARIABLES
    status,     \* socket id -> "idle" | "connected" | "closed"
    adapter,    \* socket id -> the socket.io rooms the socket is in
    users,      \* the `users` Map: socket id -> {roomId, username}
    rooms,      \* the `rooms` Map: room id -> room object
    outbox,     \* the messages the last handler delivered
    last,       \* the handler that ran last, its socket and the room it resolved
    events      \* how many playback and video-change messages were processed

vars == <<status, adapter, users, rooms, outbox, last, events>>

\* -------------------------------------------------------------- helpers
\* Map.set(k, v) and Map.delete(k) on a map held as a function
MapSet(m, k, v) == [x \in DOMAIN m \cup {k} |-> IF x = k THEN v ELSE m[x]]

MapDelete(m, k) == [x \in DOMAIN m \ {k} |-> m[x]]

\* data.f of a payload: undefined when the field is absent
Get(data, f) == IF f \in DOMAIN data THEN data[f] ELSE Undefined

\* data.f || d : d replaces an absent field and the falsy number 0
OrDefault(data, f, d) ==
    IF f \in DOMAIN data /\ data[f] # 0 THEN data[f] ELSE d

\* the sockets in socket.io room n under membership ad
InRoom(ad, n) == {t \in SocketIds : n \in ad[t]}

\* socket.emit(ev, p)
SocketEmit(s, ev, p) == {[to |-> s, event |-> ev, payload |-> p]}

\* SocketTo that does not leave the sender out
SocketToAll(ad, s, n, ev, p) ==
    {[to |-> t, event |-> ev, payload |-> p] : t \in InRoom(ad, n)}

\* socket.to(n).emit(ev, p): every socket in room n except the sender
SocketTo(ad, s, n, ev, p) ==
    {[to |-> t, event |-> ev, payload |-> p] : t \in InRoom(ad, n) \ {s}}

\* io.to(n).emit(ev, p): every socket in room n
IoTo(ad, n, ev, p) ==
    {[to |-> t, event |-> ev, payload |-> p] : t \in InRoom(ad, n)}

DefaultPlayback == [isPlaying |-> FALSE, currentTime |-> 0, playbackRate |-> 1]

NewRoom ==
    [users |-> {}, currentVideo |-> Null, videoType |-> Null,
     playbackState |-> DefaultPlayback]

\* users.get(socket.id)?.roomId, "none" when the socket has no record
RoomOf(s) == IF s \in DOMAIN users THEN users[s].roomId ELSE "none"

\* users.get(userId)?.username || 'Unknown'
NameOrUnknown(us, u) ==
    IF u \in DOMAIN us /\ us[u].username # "" THEN us[u].username ELSE "Unknown"

\* ----------------------------------------------------------------- Init
Init ==
    /\ status = [s \in SocketIds |-> "idle"]
    /\ adapter = [s \in SocketIds |-> {}]
    /\ users = <<>>
    /\ rooms = <<>>
    /\ outbox = {}
    /\ last = [op |-> "none", socket |-> "none", room |-> "none"]
    /\ events = 0

\* -------------------------------------------------------------- actions
\* io.on('connection'): the socket joins the room named by its own id
Connection(s) ==
    /\ status[s] = "idle"
    /\ status' = [status EXCEPT ![s] = "connected"]
    /\ adapter' = [adapter EXCEPT ![s] = {s}]
    /\ outbox' = {}
    /\ last' = [op |-> "connection", socket |-> s, room |-> "none"]
    /\ UNCHANGED <<users, rooms>>

\* JoinRoom whose snapshot carries the state of a new room
JoinRoomDefaults(s, data) ==
    LET roomId == data.roomId
        username == data.username
        ad == [adapter EXCEPT ![s] = @ \cup {roomId}]
        us == MapSet(users, s, [roomId |-> roomId, username |-> username])
        rs == IF roomId \notin DOMAIN rooms
                THEN MapSet(rooms, roomId, NewRoom) ELSE rooms
        room == [rs[roomId] EXCEPT !.users = @ \cup {s}]
    IN  /\ status[s] = "connected"
        /\ adapter' = ad
        /\ users' = us
        /\ rooms' = MapSet(rs, roomId, room)
        /\ outbox' =
             SocketTo(ad, s, roomId, "user-joined",
                      [userId |-> s, username |-> username])
             \cup SocketEmit(s, "room-state",
                      [video |-> NewRoom.currentVideo,
                       videoType |-> NewRoom.videoType,
                       playbackState |-> NewRoom.playbackState,
                       users |-> {[userId |-> u, username |-> NameOrUnknown(us, u)]
                                    : u \in room.users}])
        /\ last' = [op |-> "join-room", socket |-> s, room |-> roomId]
        /\ UNCHANGED status

\* socket.on('join-room')
JoinRoom(s, data) ==
    LET roomId == data.roomId
        username == data.username
        ad == [adapter EXCEPT ![s] = @ \cup {roomId}]
        us == MapSet(users, s, [roomId |-> roomId, username |-> username])
        rs == IF roomId \notin DOMAIN rooms
                THEN MapSet(rooms, roomId, NewRoom) ELSE rooms
        room == [rs[roomId] EXCEPT !.users = @ \cup {s}]
    IN  /\ status[s] = "connected"
        /\ adapter' = ad
        /\ users' = us
        /\ rooms' = MapSet(rs, roomId, room)
        /\ outbox' =
             SocketTo(ad, s, roomId, "user-joined",
                      [userId |-> s, username |-> username])
             \cup SocketEmit(s, "room-state",
                      [video |-> room.currentVideo,
                       videoType |-> room.videoType,
                       playbackState |-> room.playbackState,
                       users |-> {[userId |-> u, username |-> NameOrUnknown(us, u)]
                                    : u \in room.users}])
        /\ last' = [op |-> "join-room", socket |-> s, room |-> roomId]
        /\ UNCHANGED status

\* ApplyVideoEvent that keeps the stored value when the field is absent
ApplyVideoEventKeep(ps, data) ==
    CASE data.type = "play" ->
           [ps EXCEPT !.isPlaying = TRUE,
                      !.currentTime = OrDefault(data, "currentTime", @)]
      [] data.type = "pause" ->
           [ps EXCEPT !.isPlaying = FALSE,
                      !.currentTime = OrDefault(data, "currentTime", @)]
      [] data.type = "seek" ->
           [ps EXCEPT !.currentTime = OrDefault(data, "currentTime", @)]
      [] data.type = "rate-change" ->
           [ps EXCEPT !.playbackRate = OrDefault(data, "playbackRate", @)]
      [] OTHER -> ps

\* ApplyVideoEvent that starts every update from the default state
ApplyVideoEventReset(ps, data) ==
    CASE data.type = "play" ->
           [DefaultPlayback EXCEPT !.isPlaying = TRUE,
                      !.currentTime = OrDefault(data, "currentTime", 0)]
      [] data.type = "pause" ->
           [DefaultPlayback EXCEPT !.isPlaying = FALSE,
                      !.currentTime = OrDefault(data, "currentTime", 0)]
      [] data.type = "seek" ->
           [DefaultPlayback EXCEPT !.currentTime = OrDefault(data, "currentTime", 0)]
      [] data.type = "rate-change" ->
           [DefaultPlayback EXCEPT !.playbackRate = OrDefault(data, "playbackRate", 1)]
      [] OTHER -> ps

\* the playback update of socket.on('video-event')
ApplyVideoEvent(ps, data) ==
    CASE data.type = "play" ->
           [ps EXCEPT !.isPlaying = TRUE,
                      !.currentTime = OrDefault(data, "currentTime", 0)]
      [] data.type = "pause" ->
           [ps EXCEPT !.isPlaying = FALSE,
                      !.currentTime = OrDefault(data, "currentTime", 0)]
      [] data.type = "seek" ->
           [ps EXCEPT !.currentTime = OrDefault(data, "currentTime", 0)]
      [] data.type = "rate-change" ->
           [ps EXCEPT !.playbackRate = OrDefault(data, "playbackRate", 1)]
      [] OTHER -> ps

\* socket.on('video-event').  The handlers that look the sender up in `users`
\* are also run for a message that races with the sender's disconnect
\* (status "closed"): their guard is what has to drop it.
VideoEvent(s, data) ==
    /\ status[s] # "idle"
    /\ last' = [op |-> "video-event", socket |-> s, room |-> RoomOf(s)]
    /\ UNCHANGED <<status, adapter, users>>
    /\ IF s \notin DOMAIN users \/ users[s].roomId \notin DOMAIN rooms
         THEN /\ outbox' = {}
              /\ UNCHANGED rooms
         ELSE LET roomId == users[s].roomId
              IN  /\ rooms' = [rooms EXCEPT ![roomId].playbackState =
                                  ApplyVideoEvent(@, data)]
                  /\ outbox' = SocketTo(adapter, s, roomId, "video-event", data)

\* SetVideo without the playback reset
SetVideoNoReset(room, ref, kind) ==
    [room EXCEPT !.currentVideo = ref, !.videoType = kind]

\* the room update of both video-change handlers
SetVideo(room, ref, kind) ==
    [room EXCEPT !.currentVideo = ref, !.videoType = kind,
                 !.playbackState = DefaultPlayback]

\* socket.on('change-youtube-video')
ChangeYoutubeVideo(s, data) ==
    /\ status[s] # "idle"
    /\ last' = [op |-> "change-youtube-video", socket |-> s, room |-> RoomOf(s)]
    /\ UNCHANGED <<status, adapter, users>>
    /\ IF s \notin DOMAIN users \/ users[s].roomId \notin DOMAIN rooms
         THEN /\ outbox' = {}
              /\ UNCHANGED rooms
         ELSE LET roomId == users[s].roomId
              IN  /\ rooms' = [rooms EXCEPT ![roomId] =
                                  SetVideo(@, Get(data, "videoId"), "youtube")]
                  /\ outbox' = IoTo(adapter, roomId, "youtube-video-changed",
                                    [videoId |-> Get(data, "videoId"),
                                     title |-> Get(data, "title")])

\* socket.on('change-uploaded-video')
ChangeUploadedVideo(s, data) ==
    /\ status[s] # "idle"
    /\ last' = [op |-> "change-uploaded-video", socket |-> s, room |-> RoomOf(s)]
    /\ UNCHANGED <<status, adapter, users>>
    /\ IF s \notin DOMAIN users \/ users[s].roomId \notin DOMAIN rooms
         THEN /\ outbox' = {}
              /\ UNCHANGED rooms
         ELSE LET roomId == users[s].roomId
              IN  /\ rooms' = [rooms EXCEPT ![roomId] =
                                  SetVideo(@, Get(data, "fileUrl"), "upload")]
                  /\ outbox' = IoTo(adapter, roomId, "uploaded-video-changed",
                                    [fileUrl |-> Get(data, "fileUrl"),
                                     fileName |-> Get(data, "fileName")])

\* ChatMessage that broadcasts to every connected socket when the sender has
\* no record
ChatMessageLoose(s, data) ==
    /\ status[s] # "idle"
    /\ last' = [op |-> "chat-message", socket |-> s, room |-> RoomOf(s)]
    /\ UNCHANGED <<status, adapter, users, rooms>>
    /\ IF s \notin DOMAIN users
         THEN outbox' = {[to |-> t, event |-> "chat-message",
                          payload |-> [userId |-> s, username |-> Undefined,
                                       message |-> data.message,
                                       timestamp |-> "now"]]
                           : t \in {x \in SocketIds : status[x] = "connected"}}
         ELSE outbox' = IoTo(adapter, users[s].roomId, "chat-message",
                             [userId |-> s, username |-> users[s].username,
                              message |-> data.message, timestamp |-> "now"])

\* socket.on('chat-message'); the timestamp is the server clock, held as "now"
ChatMessage(s, data) ==
    /\ status[s] # "idle"
    /\ last' = [op |-> "chat-message", socket |-> s, room |-> RoomOf(s)]
    /\ UNCHANGED <<status, adapter, users, rooms>>
    /\ IF s \notin DOMAIN users
         THEN outbox' = {}
         ELSE outbox' = IoTo(adapter, users[s].roomId, "chat-message",
                             [userId |-> s, username |-> users[s].username,
                              message |-> data.message, timestamp |-> "now"])

\* the three WebRTC signaling handlers: socket.to(data.target).emit(kind, ...)
Relay(kind, s, data) ==
    /\ status[s] = "connected"
    /\ last' = [op |-> kind, socket |-> s, room |-> "none"]
    /\ UNCHANGED <<status, adapter, users, rooms>>
    /\ outbox' = SocketTo(adapter, s, data.target, kind,
                          [body |-> data.body, from |-> s])

\* socket.on('webrtc-offer')
WebrtcOffer(s, data) == Relay("webrtc-offer", s, data)

\* socket.on('webrtc-answer')
WebrtcAnswer(s, data) == Relay("webrtc-answer", s, data)

\* socket.on('webrtc-ice-candidate')
WebrtcIceCandidate(s, data) == Relay("webrtc-ice-candidate", s, data)

\* LeaveRoom without the empty check: the room stays in the store
LeaveRoomKeep(rs, roomId, s) ==
    MapSet(rs, roomId, [rs[roomId] EXCEPT !.users = @ \ {s}])

\* LeaveRoom that removes the room whether or not members remain
LeaveRoomAlways(rs, roomId, s) == MapDelete(rs, roomId)

\* the room cleanup of socket.on('disconnect'): room.users.delete(socket.id),
\* then rooms.delete(roomId) when the set is empty
LeaveRoom(rs, roomId, s) ==
    LET room == [rs[roomId] EXCEPT !.users = @ \ {s}]
    IN  IF room.users = {} THEN MapDelete(rs, roomId)
                           ELSE MapSet(rs, roomId, room)

\* Disconnect that tells nobody that the socket left
DisconnectQuiet(s) ==
    /\ status[s] = "connected"
    /\ status' = [status EXCEPT ![s] = "closed"]
    /\ adapter' = [adapter EXCEPT ![s] = {}]
    /\ last' = [op |-> "disconnect", socket |-> s, room |-> RoomOf(s)]
    /\ outbox' = {}
    /\ IF s \in DOMAIN users
         THEN /\ users' = MapDelete(users, s)
              /\ IF users[s].roomId \in DOMAIN rooms
                   THEN rooms' = LeaveRoom(rooms, users[s].roomId, s)
                   ELSE UNCHANGED rooms
         ELSE UNCHANGED <<users, rooms>>

\* socket.on('disconnect'): socket.io has taken the socket out of all its
\* rooms before the handler runs
Disconnect(s) ==
    LET ad == [adapter EXCEPT ![s] = {}]
    IN  /\ status[s] = "connected"
        /\ status' = [status EXCEPT ![s] = "closed"]
        /\ adapter' = ad
        /\ last' = [op |-> "disconnect", socket |-> s, room |-> RoomOf(s)]
        /\ IF s \in DOMAIN users
             THEN LET user == users[s]
                  IN  /\ users' = MapDelete(users, s)
                      /\ IF user.roomId \in DOMAIN rooms
                           THEN /\ rooms' = LeaveRoom(rooms, user.roomId, s)
                                /\ outbox' =
                                     IF rooms[user.roomId].users \ {s} = {}
                                       THEN {}
                                       ELSE SocketTo(ad, s, user.roomId, "user-left",
                                                     [userId |-> s,
                                                      username |-> user.username])
                           ELSE /\ outbox' = {}
                                /\ UNCHANGED rooms
             ELSE /\ outbox' = {}
                  /\ UNCHANGED <<users, rooms>>

\* a playback or video-change message is processed while the budget lasts
Counted == events < MaxEvents /\ events' = events + 1

Next ==
    \/ \E s \in SocketIds : Connection(s) /\ UNCHANGED events
    \/ \E s \in SocketIds, data \in JoinData :
          JoinRoom(s, data) /\ UNCHANGED events
    \/ \E s \in SocketIds, data \in VideoEventData :
          VideoEvent(s, data) /\ Counted
    \/ \E s \in SocketIds, data \in YoutubeData :
          ChangeYoutubeVideo(s, data) /\ Counted
    \/ \E s \in SocketIds, data \in UploadData :
          ChangeUploadedVideo(s, data) /\ Counted
    \/ \E s \in SocketIds, data \in ChatData :
          ChatMessage(s, data) /\ UNCHANGED events
    \/ \E s \in SocketIds, data \in SignalData :
          WebrtcOffer(s, data) /\ UNCHANGED events
    \/ \E s \in SocketIds, data \in SignalData :
          WebrtcAnswer(s, data) /\ UNCHANGED events
    \/ \E s \in SocketIds, data \in SignalData :
          WebrtcIceCandidate(s, data) /\ UNCHANGED events
    \/ \E s \in SocketIds : Disconnect(s) /\ UNCHANGED events

Spec == Init /\ [][Next]_vars

\* the playback sessions: sockets connect, join and send video-events, with a
\* budget long enough for three events in a row
PlaybackNext ==
    \/ \E s \in SocketIds : Connection(s) /\ UNCHANGED events
    \/ \E s \in SocketIds, data \in JoinData :
          JoinRoom(s, data) /\ UNCHANGED events
    \/ \E s \in SocketIds, data \in VideoEventData :
          /\ VideoEvent(s, data)
          /\ events < MaxPlaybackEvents
          /\ events' = events + 1

PlaybackSpec == Init /\ [][PlaybackNext]_vars

\* ================================================================ claims
Connected == {s \in SocketIds : status[s] = "connected"}

\* the member set of room r: room.users, empty for a room not in the store
MemberSet(r) == IF r \in DOMAIN rooms THEN rooms[r].users ELSE {}

\* the connected sockets in the member set of room r
LiveMembers(r) == MemberSet(r) \cap Connected

\* the sockets the last handler delivered event ev to
DeliveredTo(ev) == {m.to : m \in {x \in outbox : x.event = ev}}

JoinStep == last'.op = "join-room"

DisconnectStep == last'.op = "disconnect"

VideoStep == last'.op = "video-event"

ChangeStep == last'.op \in {"change-youtube-video", "change-uploaded-video"}

SignalOps == {"webrtc-offer", "webrtc-answer", "webrtc-ice-candidate"}

SignalStep == last'.op \in SignalOps

\* C1: in every state, after any sequence of join-room and disconnect
\* events, a room id is a key of `rooms` iff the room's member set is
\* non-empty.
C1_RoomIffMembers ==
    \A r \in RoomIds : (r \in DOMAIN rooms) <=> (MemberSet(r) # {})

\* a disconnect has just removed the room its socket was the last member of,
\* while another room with a connected member stays
C1_Witness ==
    /\ last.op = "disconnect"
    /\ last.room \in RoomIds
    /\ last.room \notin DOMAIN rooms
    /\ \E r \in DOMAIN rooms : LiveMembers(r) # {}

\* C2: no room-state snapshot lists a participant whose disconnect has
\* already been processed.
C2_NoDisconnectedInSnapshot ==
    \A m \in outbox :
        m.event = "room-state" =>
            \A u \in m.payload.users : status[u.userId] # "closed"

\* C3: a join-room from a socket that already has a registry record changes
\* neither that record, nor the key set of `rooms`, nor any member set.
C3_RejoinRejected ==
    [][(JoinStep /\ last'.socket \in DOMAIN users) =>
          /\ users'[last'.socket] = users[last'.socket]
          /\ DOMAIN rooms' = DOMAIN rooms
          /\ \A r \in DOMAIN rooms : rooms'[r].users = rooms[r].users]_vars

\* C4: every socket id is in at most one room's member set, and that room is
\* the one its registry record names.
C4_OneRoomPerParticipant ==
    \A r \in DOMAIN rooms : \A s \in rooms[r].users :
        s \in DOMAIN users /\ users[s].roomId = r

\* C5: a video-event of a joined sender reaches every other live member of
\* the sender's room and never the sender; a chat-message and a video-changed
\* notification reach every live member of the sender's room, the sender
\* included.
C5_BroadcastAndSender ==
    LET s == last.socket
        r == last.room
    IN  r \in DOMAIN rooms =>
          /\ last.op = "video-event" =>
                /\ LiveMembers(r) \ {s} \subseteq DeliveredTo("video-event")
                /\ \A m \in outbox : m.to # s
          /\ last.op = "chat-message" =>
                /\ s \in LiveMembers(r)
                /\ LiveMembers(r) \subseteq DeliveredTo("chat-message")
          /\ last.op = "change-youtube-video" =>
                /\ s \in LiveMembers(r)
                /\ LiveMembers(r) \subseteq DeliveredTo("youtube-video-changed")
          /\ last.op = "change-uploaded-video" =>
                /\ s \in LiveMembers(r)
                /\ LiveMembers(r) \subseteq DeliveredTo("uploaded-video-changed")

\* a video-event was sent in a room with another live member and reached it
C5_Witness ==
    /\ last.op = "video-event"
    /\ last.room \in DOMAIN rooms
    /\ LiveMembers(last.room) \ {last.socket} # {}
    /\ DeliveredTo("video-event") = LiveMembers(last.room) \ {last.socket}

KnownTypes == {"play", "pause", "seek", "rate-change"}

\* C6: a video-event of a joined sender whose type is none of play, pause,
\* seek, rate-change changes no playback field and delivers no message.
C6_UnknownTypeDropped ==
    [][\A s \in {last'.socket} \cap DOMAIN users, d \in VideoEventData :
          (d.type \notin KnownTypes /\ VideoStep /\ VideoEvent(s, d)) =>
              /\ rooms'[users[s].roomId].playbackState
                   = rooms[users[s].roomId].playbackState
              /\ outbox' = {}]_vars

\* C7 as stated: a play, pause or seek without currentTime leaves currentTime
\* as it was, and a rate-change without playbackRate leaves playbackRate as it
\* was.
C7_AbsentFieldKeepsValue ==
    [][\A s \in {last'.socket} \cap DOMAIN users, d \in VideoEventData :
          (VideoStep /\ VideoEvent(s, d)) =>
              LET old == rooms[users[s].roomId].playbackState
                  new == rooms'[users[s].roomId].playbackState
              IN  /\ (d.type \in {"play", "pause", "seek"}
                        /\ "currentTime" \notin DOMAIN d)
                       => new.currentTime = old.currentTime
                  /\ (d.type = "rate-change" /\ "playbackRate" \notin DOMAIN d)
                       => new.playbackRate = old.playbackRate]_vars

\* C7 amended: a play, pause or seek without currentTime sets currentTime to
\* 0, and a rate-change without playbackRate sets playbackRate to 1.
C7_AbsentFieldDefaults ==
    [][\A s \in {last'.socket} \cap DOMAIN users, d \in VideoEventData :
          (VideoStep /\ VideoEvent(s, d)) =>
              LET new == rooms'[users[s].roomId].playbackState
              IN  /\ (d.type \in {"play", "pause", "seek"}
                        /\ "currentTime" \notin DOMAIN d)
                       => new.currentTime = 0
                  /\ (d.type = "rate-change" /\ "playbackRate" \notin DOMAIN d)
                       => new.playbackRate = 1]_vars

\* a seek without currentTime was relayed in a room that is playing: the
\* room's currentTime is 0
C7_Witness ==
    /\ last.op = "video-event"
    /\ last.room \in DOMAIN rooms
    /\ \E m \in outbox :
          /\ m.event = "video-event"
          /\ m.payload.type = "seek"
          /\ "currentTime" \notin DOMAIN m.payload
    /\ rooms[last.room].playbackState.isPlaying
    /\ rooms[last.room].playbackState.currentTime = 0

\* the room-state snapshot among the delivered messages, if any
Snapshots == {m \in outbox : m.event = "room-state"}

\* C8: when the last member of a room disconnects the room leaves the
\* store, and a join-room into a room all of whose earlier members have
\* disconnected gets a snapshot with no video, no video type, the default
\* playback state and the joiner as only user.
C8_LastLeaveThenFreshRoom ==
    [][/\ DisconnectStep =>
            \A r \in DOMAIN rooms :
                rooms[r].users = {last'.socket} => r \notin DOMAIN rooms'
       /\ (JoinStep /\ LiveMembers(last'.room) = {}) =>
            \A m \in Snapshots' :
                /\ m.payload.video = Null
                /\ m.payload.videoType = Null
                /\ m.payload.playbackState =
                     [isPlaying |-> FALSE, currentTime |-> 0, playbackRate |-> 1]
                /\ {u.userId : u \in m.payload.users} = {last'.socket}]_vars

\* C9: a video change of a joined sender sets the room's video reference and
\* kind to the event's values and resets the playback state to
\* {isPlaying: false, currentTime: 0, playbackRate: 1}; every socket joined to
\* that room, the sender included, gets the notification with the event's
\* reference and title.
C9_VideoChangeResets ==
    [][\A s \in {last'.socket} \cap DOMAIN users :
          LET r == users[s].roomId
              Changed(ref, kind) ==
                  /\ rooms'[r].currentVideo = ref
                  /\ rooms'[r].videoType = kind
                  /\ rooms'[r].playbackState =
                       [isPlaying |-> FALSE, currentTime |-> 0, playbackRate |-> 1]
              Notified(ev, p) ==
                  \A t \in LiveMembers(r) \cup {x \in DOMAIN users : users[x].roomId = r} :
                      [to |-> t, event |-> ev, payload |-> p] \in outbox'
          IN  /\ \A d \in YoutubeData :
                    (ChangeStep /\ ChangeYoutubeVideo(s, d)) =>
                        /\ Changed(Get(d, "videoId"), "youtube")
                        /\ Notified("youtube-video-changed",
                                    [videoId |-> Get(d, "videoId"),
                                     title |-> Get(d, "title")])
              /\ \A d \in UploadData :
                    (ChangeStep /\ ChangeUploadedVideo(s, d)) =>
                        /\ Changed(Get(d, "fileUrl"), "upload")
                        /\ Notified("uploaded-video-changed",
                                    [fileUrl |-> Get(d, "fileUrl"),
                                     fileName |-> Get(d, "fileName")])]_vars

\* after an earlier playback event, a video change with reference and title
\* was sent in a room of two: both got it and the playback state is the
\* default
C9_Witness ==
    /\ last.op = "change-youtube-video"
    /\ last.room \in DOMAIN rooms
    /\ events = MaxEvents
    /\ Cardinality(LiveMembers(last.room)) >= 2
    /\ \A t \in LiveMembers(last.room) :
          [to |-> t, event |-> "youtube-video-changed",
           payload |-> [videoId |-> "v1", title |-> "Demo"]] \in outbox
    /\ rooms[last.room].currentVideo = "v1"
    /\ rooms[last.room].playbackState = DefaultPlayback

\* C10: a signaling message with target t reaches at most one socket, the
\* connected socket whose id is t, tagged with the sender's id.
C10_SignalOnlyToTarget ==
    [][\A s \in {last'.socket}, d \in SignalData :
          (SignalStep /\ (\/ WebrtcOffer(s, d)
                          \/ WebrtcAnswer(s, d)
                          \/ WebrtcIceCandidate(s, d))) =>
              /\ Cardinality(outbox') <= 1
              /\ \A m \in outbox' :
                    /\ m.to = d.target
                    /\ status[m.to] = "connected"
                    /\ m.payload.from = s]_vars

\* C11: a signaling message whose target is not a connected socket delivers
\* nothing and changes neither `rooms`, nor `users`, nor any connection.
C11_UnconnectedTargetDropped ==
    [][\A s \in {last'.socket}, d \in SignalData :
          (/\ SignalStep
           /\ d.target \notin Connected
           /\ (\/ WebrtcOffer(s, d)
               \/ WebrtcAnswer(s, d)
               \/ WebrtcIceCandidate(s, d))) =>
              /\ outbox' = {}
              /\ rooms' = rooms
              /\ users' = users
              /\ status' = status]_vars

EventOps ==
    {"video-event", "change-youtube-video", "change-uploaded-video",
     "chat-message"}

\* C12: a video-event, video-change or chat-message of a sender that has no
\* registry record (never joined, or already disconnected) changes no room
\* and delivers nothing.
C12_UnjoinedSenderDropped ==
    [][(/\ last'.op \in EventOps
        /\ (last'.socket \notin DOMAIN users \/ status[last'.socket] = "closed")) =>
          /\ rooms' = rooms
          /\ outbox' = {}]_vars

\* a connected socket that never joined sent an event while a room with a
\* connected member exists: nothing was delivered
C12_Witness ==
    /\ last.op \in EventOps
    /\ last.socket \notin DOMAIN users
    /\ status[last.socket] = "connected"
    /\ \E r \in DOMAIN rooms : LiveMembers(r) # {}
    /\ outbox = {}

\* C13: a socket whose disconnect has been processed has no registry record
\* and is in no room's member set, in that state and ever after.
C13_DisconnectedGone ==
    \A s \in SocketIds :
        status[s] = "closed" =>
            /\ s \notin DOMAIN users
            /\ \A r \in DOMAIN rooms : s \notin rooms[r].users

\* C14: on join-room of a socket p without a registry record into room r,
\* exactly p gets one room-state whose users list is r's member set after the
\* join, each member with the username of its registry record; the connected
\* sockets that were members of r before the join, and only those, get one
\* user-joined with p's id and username; p gets no user-joined.
C14_JoinNotifications ==
    [][(JoinStep /\ last'.socket \notin DOMAIN users) =>
          LET p == last'.socket
              r == last'.room
              snaps == {m \in outbox' : m.event = "room-state"}
              joined == {m \in outbox' : m.event = "user-joined"}
          IN  /\ Cardinality(snaps) = 1
              /\ \A m \in snaps : m.to = p
              /\ rooms'[r].users \subseteq DOMAIN users'
              /\ \A m \in snaps :
                    m.payload.users =
                      {[userId |-> u, username |-> users'[u].username]
                         : u \in rooms'[r].users \cap DOMAIN users'}
              /\ {m.to : m \in joined} = LiveMembers(r)
              /\ \A m \in joined :
                    m.payload = [userId |-> p, username |-> users'[p].username]
              /\ \A m \in joined : m.to # p]_vars

\* C15: on disconnect of a socket p whose record names a stored room r: when
\* r has members besides p, r stays in the store and every connected one of
\* them gets exactly one message, a user-left with p's id and username; when
\* p is r's only member, r is removed and nothing is delivered; p gets
\* nothing in either case.
C15_LeaveNotifications ==
    [][(/\ DisconnectStep
        /\ last'.socket \in DOMAIN users
        /\ last'.room \in DOMAIN rooms) =>
          LET p == last'.socket
              r == last'.room
              rest == rooms[r].users \ {p}
          IN  /\ rest # {} =>
                    /\ r \in DOMAIN rooms'
                    /\ outbox' =
                         {[to |-> t, event |-> "user-left",
                           payload |-> [userId |-> p,
                                        username |-> users[p].username]]
                            : t \in rest \cap Connected}
              /\ rest = {} =>
                    /\ r \notin DOMAIN rooms'
                    /\ outbox' = {}
              /\ \A m \in outbox' : m.to # p]_vars

\* a socket left a room in which a connected member stays: that member got
\* the user-left naming the leaver, the leaver got nothing, the room stays
C15_Witness ==
    /\ last.op = "disconnect"
    /\ last.room \in DOMAIN rooms
    /\ LiveMembers(last.room) # {}
    /\ DeliveredTo("user-left") = LiveMembers(last.room)
    /\ \A m \in outbox : m.payload.userId = last.socket /\ m.to # last.socket

\* the playback state after play, pause, seek{currentTime: 42} from the
\* default state
PlayPauseSeek ==
    ApplyVideoEvent(
        ApplyVideoEvent(
            ApplyVideoEvent(DefaultPlayback, [type |-> "play"]),
            [type |-> "pause"]),
        [type |-> "seek", currentTime |-> 42])

\* the playback state after a rate-change to rate r, then a seek to 42, from
\* playback state ps
RateThenSeek(ps, r) ==
    ApplyVideoEvent(
        ApplyVideoEvent(ps, [type |-> "rate-change", playbackRate |-> r]),
        [type |-> "seek", currentTime |-> 42])

\* C16: a seek changes neither isPlaying nor playbackRate, a rate-change
\* neither isPlaying nor currentTime, a play or pause not playbackRate; from
\* the default state play, pause, seek{currentTime: 42} ends in
\* {isPlaying: false, currentTime: 42, playbackRate: 1}; a rate-change to a
\* non-default rate followed by a seek keeps that rate and isPlaying and sets
\* currentTime to the seek's value.
C16_PlaybackFrame ==
    [][/\ \A s \in {last'.socket} \cap DOMAIN users, d \in VideoEventData :
             (VideoStep /\ VideoEvent(s, d)) =>
                 LET old == rooms[users[s].roomId].playbackState
                     new == rooms'[users[s].roomId].playbackState
                 IN  /\ d.type = "seek" =>
                          /\ new.isPlaying = old.isPlaying
                          /\ new.playbackRate = old.playbackRate
                     /\ d.type = "rate-change" =>
                          /\ new.isPlaying = old.isPlaying
                          /\ new.currentTime = old.currentTime
                     /\ d.type \in {"play", "pause"} =>
                          new.playbackRate = old.playbackRate
                     /\ \A r \in Rates :
                          RateThenSeek(old, r) =
                            [isPlaying |-> old.isPlaying, currentTime |-> 42,
                             playbackRate |-> r]
       /\ PlayPauseSeek =
            [isPlaying |-> FALSE, currentTime |-> 42, playbackRate |-> 1]]_vars

\* three playback events were processed in a room of two, the last one a seek
\* to 42 relayed to the other member: the room is still playing at the
\* non-default rate set earlier
C16_Witness ==
    /\ last.op = "video-event"
    /\ last.room \in DOMAIN rooms
    /\ events = MaxPlaybackEvents
    /\ [to |-> CHOOSE t \in SocketIds : t # last.socket,
        event |-> "video-event",
        payload |-> [type |-> "seek", currentTime |-> 42]] \in outbox
    /\ rooms[last.room].playbackState =
         [isPlaying |-> TRUE, currentTime |-> 42, playbackRate |-> 2]

\* C17: a join-room into a room that is in the store delivers one room-state
\* whose video, videoType and playbackState are the ones the room holds at
\* that moment, that is, the ones the last video-event or video change of any
\* of its members wrote; the join itself changes none of them.
C17_SnapshotIsCurrent ==
    [][(JoinStep /\ last'.room \in DOMAIN rooms) =>
          LET r == last'.room
          IN  /\ Snapshots' # {}
              /\ \A m \in Snapshots' :
                    /\ m.payload.video = rooms[r].currentVideo
                    /\ m.payload.videoType = rooms[r].videoType
                    /\ m.payload.playbackState = rooms[r].playbackState
              /\ rooms'[r].currentVideo = rooms[r].currentVideo
              /\ rooms'[r].videoType = rooms[r].videoType
              /\ rooms'[r].playbackState = rooms[r].playbackState]_vars

\* after a video change and a play at 42, a socket joined the room of another
\* connected member: its snapshot carries that video and that playback state
C17_Witness ==
    /\ last.op = "join-room"
    /\ events = MaxEvents
    /\ Cardinality(LiveMembers(last.room)) >= 2
    /\ \E m \in Snapshots :
          /\ m.to = last.socket
          /\ m.payload.video = "v1"
          /\ m.payload.videoType = "youtube"
          /\ m.payload.playbackState =
               [isPlaying |-> TRUE, currentTime |-> 42, playbackRate |-> 1]

\* C18: in every room, currentVideo and videoType are both absent or both
\* set.
C18_VideoAndKindTogether ==
    \A r \in DOMAIN rooms :
        (rooms[r].currentVideo \in {Null, Undefined}) <=> (rooms[r].videoType = Null)

\* C19: a video-event, video change or chat-message of a sender whose record
\* names the stored room r changes no room other than r and is delivered only
\* to sockets whose registry record names r.
C19_CrossRoomIsolation ==
    [][(/\ last'.op \in EventOps
        /\ last'.socket \in DOMAIN users
        /\ last'.room \in DOMAIN rooms) =>
          LET r == last'.room
          IN  /\ DOMAIN rooms' = DOMAIN rooms
              /\ \A q \in DOMAIN rooms \ {r} : rooms'[q] = rooms[q]
              /\ \A m \in outbox' :
                    m.to \in DOMAIN users /\ users[m.to].roomId = r]_vars

\* C20: every registry record names a room that is in the store and whose
\* member set holds the record's socket.
C20_RecordNamesLiveRoom ==
    \A s \in DOMAIN users :
        /\ users[s].roomId \in DOMAIN rooms
        /\ s \in rooms[users[s].roomId].users

\* a member of a room disconnected while another socket had joined the same
\* room: the room is still stored, with the joiner as its only member, and the
\* joiner's record names it
C20_Witness ==
    /\ last.op = "disconnect"
    /\ last.room \in DOMAIN rooms
    /\ \E s \in DOMAIN users :
          /\ users[s].roomId = last.room
          /\ rooms[last.room].users = {s}

====
